---- MODULE Spec2Model ----
\* Model of the log store (src/logStore.ts) and of the MCP query tools
\* (src/mcp-server.ts) of vite-plugin-terminal-mcp.
EXTENDS Integers, Sequences, FiniteSets, TLC

VARIABLES
    maxLogs,   \* the configured mcp.maxLogs option (a JSON value, possibly undefined)
    maxSize,   \* LogStore.maxSize
    logs,      \* LogStore.logs
    added,     \* history: the events passed to add since the last clear, in call order
    call,      \* the operation invoked last, with its arguments
    result,    \* what that operation returned
    mcp,       \* configureServer: mcpEnabled (logStore created), mcpLevels, mcpSilent
    arrivals,  \* history: the requests handled by the /__terminal middleware, in order
    exchange,  \* the request handled last by the middleware, and what became of it
    pending,   \* ordering guard: entries handed to dispatchLog and not yet released
    sink,      \* live sink: the entries whose run() was executed, in release order
    producer,  \* createTerminal: count, groupLevel and the outcome of the last call
    inflight,  \* fetch promises of the producer that are not settled yet
    rejections, \* rejected fetch promises that no handler observed
    held,      \* the array a caller received from getAll() and kept
    window     \* the page: the listeners setupErrorHandlers installed and what they did

relayVars == <<mcp, arrivals, exchange, pending, sink>>
producerVars == <<producer, inflight, rejections, window>>
vars == <<maxLogs, maxSize, logs, added, call, result, relayVars, producerVars, held>>

\* ---------------------------------------------------------------- bounds

\* Most add calls between two clears.
MaxAdds == 4
\* Largest explicitly configured capacity.
MaxCap == 2
\* Most add calls between two clears under SpecQuery.
MaxLen == 2

\* ---------------------------------------------------------------- values

\* JavaScript values that reach the store and the tools: numbers, strings, undefined.
Num(n) == [t |-> "number", n |-> n, s |-> ""]
Str(s) == [t |-> "string", n |-> 0, s |-> s]
Undefined == [t |-> "undefined", n |-> 0, s |-> ""]

\* A nullable number of a tool's output: <<>> is null, <<x>> is the number x.
Null == <<>>
Some(x) == <<x>>

Levels == {"log", "info", "debug", "warn", "error", "assert"}

StoredLog(method, message, timestamp, count, groupLevel) ==
    [method |-> method, message |-> message, timestamp |-> timestamp,
     count |-> count, groupLevel |-> groupLevel]

Max(a, b) == IF a >= b THEN a ELSE b
Min(a, b) == IF a <= b THEN a ELSE b

\* ---------------------------------------------------------------- LogStore

DefaultMaxSize == 1000

\* constructor(maxSize = 1000): a default parameter replaces undefined only.
constructor(arg) == IF arg.t = "undefined" THEN DefaultMaxSize ELSE arg.n

\* Array.prototype.slice(start) with an integer start.
slice(s, start) ==
    LET len == Len(s)
        k == IF start < 0 THEN Max(len + start, 0) ELSE Min(start, len)
    IN SubSeq(s, k + 1, len)

\* Faulty variants of add: no eviction; eviction of the newest event; stored
\* events modified on insertion.
add_noShift(ls, cap, log) == Append(ls, log)
add_popNewest(ls, cap, log) ==
    LET pushed == Append(ls, log)
    IN IF Len(pushed) > cap THEN SubSeq(pushed, 1, Len(pushed) - 1) ELSE pushed
add_touch(ls, cap, log) ==
    LET pushed == [i \in 1..(Len(ls) + 1) |->
                      IF i <= Len(ls) THEN [ls[i] EXCEPT !.groupLevel = @ + 1] ELSE log]
    IN IF Len(pushed) > cap THEN Tail(pushed) ELSE pushed

\* Faulty variant of add: the log is inserted in timestamp order (timestamps
\* as decoded by the transport endpoint).
add_sorted(ls, cap, log) ==
    LET before == SelectSeq(ls, LAMBDA x : x.timestamp.n <= log.timestamp.n)
        after == SelectSeq(ls, LAMBDA x : x.timestamp.n > log.timestamp.n)
        pushed == before \o <<log>> \o after
    IN IF Len(pushed) > cap THEN Tail(pushed) ELSE pushed

\* add(log): push, then shift once when the length exceeds maxSize.
add(ls, cap, log) ==
    LET pushed == Append(ls, log)
    IN IF Len(pushed) > cap THEN Tail(pushed) ELSE pushed

getAll(ls) == ls

\* Faulty variant of getByLevel: inverted test.
getByLevel_not(ls, level) ==
    LET Test(log) == log.method # level IN SelectSeq(ls, Test)

getByLevel(ls, level) ==
    LET Test(log) == log.method = level IN SelectSeq(ls, Test)

getErrors(ls) ==
    LET Test(log) == log.method = "error" \/ log.method = "assert" IN SelectSeq(ls, Test)

getRecent(ls, count) == slice(ls, 0 - count)

getRecentErrors(ls, count) == slice(getErrors(ls), 0 - count)

\* Faulty variant of getSince: strict comparison.
getSince_strict(ls, timestamp) ==
    LET Test(log) == log.timestamp > timestamp IN SelectSeq(ls, Test)

getSince(ls, timestamp) ==
    LET Test(log) == log.timestamp >= timestamp IN SelectSeq(ls, Test)

\* Faulty variant of clear: the array is kept.
clear_keep(ls) == ls

clear(ls) == <<>>

size(ls) == Len(ls)

\* ---------------------------------------------------------------- calls and results

Call(op, n, level) == [op |-> op, n |-> n, level |-> level]

NoStats ==
    [total |-> 0, errors |-> 0, warnings |-> 0, info |-> 0, debug |-> 0, log |-> 0,
     oldestTimestamp |-> Null, newestTimestamp |-> Null]

Result(kind, ls, n, stats) == [kind |-> kind, logs |-> ls, n |-> n, stats |-> stats]

Void == Result("void", <<>>, 0, NoStats)
Returned(ls) == Result("logs", ls, Len(ls), NoStats)

\* ---------------------------------------------------------------- store actions

\* The events the store is fed with under Spec.
StoreEvents ==
    {StoredLog(m, "A", t, 0, 0) : m \in {"log", "error", "assert"}, t \in {100, 200}}

\* mcpLevels when mcp.levels is not configured.
DefaultLevels == {"error", "warn", "info", "log", "debug", "assert"}

Mcp(enabled, levels, silent) == [enabled |-> enabled, levels |-> levels, silent |-> silent]

\* A request to /__terminal/<method>?t=..&c=..&g=..&m=..; a parameter is a
\* string, or undefined when the query does not hold it.
Request(method, t, c, g, m) == [method |-> method, t |-> t, c |-> c, g |-> g, m |-> m]

NoRequest == Request("", Undefined, Undefined, Undefined, Undefined)

\* What became of a request: res.end() reached or an exception thrown, the event
\* passed to logStore.add (if any) and the entry passed to dispatchLog (if any).
Exchange(request, ended, threw, stored, dispatched) ==
    [request |-> request, ended |-> ended, threw |-> threw,
     stored |-> stored, dispatched |-> dispatched]

NoExchange == Exchange(NoRequest, FALSE, FALSE, <<>>, <<>>)

\* createTerminal: let count = 0, let groupLevel = 0.
NewProducer == [count |-> 0, groupLevel |-> 0, threw |-> FALSE, sent |-> <<>>]

\* No request handled, no producer call made.
\* The array a caller holds: none yet, or one that is the store's own array
\* (alias) or an array of its own with the elements given.
NotHeld == [taken |-> FALSE, alias |-> FALSE, elements |-> <<>>]
HeldCopy(elements) == [taken |-> TRUE, alias |-> FALSE, elements |-> elements]
HeldAlias == [taken |-> TRUE, alias |-> TRUE, elements |-> <<>>]

\* The page before setupErrorHandlers was called: no listener of the plugin.
NoHandlers ==
    [installed |-> FALSE, options |-> [terminal |-> TRUE],
     error |-> FALSE, unhandledrejection |-> FALSE, consoleError |-> FALSE,
     delivered |-> 0, fedBack |-> 0]

InitIdle ==
    /\ arrivals = <<>>
    /\ exchange = NoExchange
    /\ pending = {}
    /\ sink = <<>>
    /\ producer = NewProducer
    /\ inflight = 0
    /\ rejections = 0
    /\ held = NotHeld
    /\ window = NoHandlers

Init ==
    /\ maxLogs \in {Undefined} \cup {Num(c) : c \in 0..MaxCap}
    /\ maxSize = constructor(maxLogs)
    /\ logs = <<>>
    /\ added = <<>>
    /\ call = Call("new", maxLogs, Undefined)
    /\ result = Void
    /\ mcp = Mcp(TRUE, DefaultLevels, FALSE)
    /\ InitIdle

\* Faulty variant of Add: the handler yields between the push and the shift;
\* the eviction is made up for at the start of the next add.
Add_torn(log, bound) ==
    /\ Len(added) < bound
    /\ logs' = Append(IF Len(logs) > maxSize THEN Tail(logs) ELSE logs, log)
    /\ added' = Append(added, log)
    /\ call' = Call("add", Undefined, Undefined)
    /\ result' = Void
    /\ UNCHANGED <<maxLogs, maxSize, relayVars, producerVars, held>>

\* A request handler calling logStore.add(log): push and shift run in one
\* synchronous call, no other handler runs in between.
Add(log, bound) ==
    /\ Len(added) < bound
    /\ logs' = add(logs, maxSize, log)
    /\ added' = Append(added, log)
    /\ call' = Call("add", Undefined, Undefined)
    /\ result' = Void
    /\ UNCHANGED <<maxLogs, maxSize, relayVars, producerVars, held>>

GetAll ==
    /\ call' = Call("getAll", Undefined, Undefined)
    /\ result' = Returned(getAll(logs))
    /\ UNCHANGED <<maxLogs, maxSize, logs, added, relayVars, producerVars, held>>

Size ==
    /\ call' = Call("size", Undefined, Undefined)
    /\ result' = Result("number", <<>>, size(logs), NoStats)
    /\ UNCHANGED <<maxLogs, maxSize, logs, added, relayVars, producerVars, held>>

\* ---------------------------------------------------------------- MCP tools

\* Faulty variant of the clear-console-logs handler: the size is read after the clear.
clearConsoleLogs_sizeAfter(ls) == [cleared |-> size(clear(ls)), logs |-> clear(ls)]

\* The handler of clear-console-logs: previousSize = logStore.size, then logStore.clear().
clearConsoleLogs(ls) == [cleared |-> size(ls), logs |-> clear(ls)]

\* Faulty variant of the get-console-stats handler: newest taken from all[0].
getConsoleStats_newestFirst(ls) ==
    LET all == getAll(ls)
    IN [total |-> Len(all),
        errors |-> Len(getErrors(ls)),
        warnings |-> Len(getByLevel(ls, "warn")),
        info |-> Len(getByLevel(ls, "info")),
        debug |-> Len(getByLevel(ls, "debug")),
        log |-> Len(getByLevel(ls, "log")),
        oldestTimestamp |-> IF Len(all) > 0 THEN Some(all[1].timestamp) ELSE Null,
        newestTimestamp |-> IF Len(all) > 0 THEN Some(all[1].timestamp) ELSE Null]

\* The handler of get-console-stats.
\* Faulty variant: the info counter also counts the events of level log.
getConsoleStats_infoAndLog(ls) ==
    LET all == getAll(ls)
    IN [total |-> Len(all),
        errors |-> Len(getErrors(ls)),
        warnings |-> Len(getByLevel(ls, "warn")),
        info |-> Len(getByLevel(ls, "info")) + Len(getByLevel(ls, "log")),
        debug |-> Len(getByLevel(ls, "debug")),
        log |-> Len(getByLevel(ls, "log")),
        oldestTimestamp |-> IF Len(all) > 0 THEN Some(all[1].timestamp) ELSE Null,
        newestTimestamp |-> IF Len(all) > 0 THEN Some(all[Len(all)].timestamp) ELSE Null]

getConsoleStats(ls) ==
    LET all == getAll(ls)
        errors == getErrors(ls)
        warnings == getByLevel(ls, "warn")
        info == getByLevel(ls, "info")
        debug == getByLevel(ls, "debug")
        regular == getByLevel(ls, "log")
    IN [total |-> Len(all),
        errors |-> Len(errors),
        warnings |-> Len(warnings),
        info |-> Len(info),
        debug |-> Len(debug),
        log |-> Len(regular),
        oldestTimestamp |-> IF Len(all) > 0 THEN Some(all[1].timestamp) ELSE Null,
        newestTimestamp |-> IF Len(all) > 0 THEN Some(all[Len(all)].timestamp) ELSE Null]

ClearConsoleLogs ==
    LET out == clearConsoleLogs(logs)
    IN /\ logs' = out.logs
       /\ added' = <<>>
       /\ call' = Call("clear-console-logs", Undefined, Undefined)
       /\ result' = Result("cleared", <<>>, out.cleared, NoStats)
       /\ UNCHANGED <<maxLogs, maxSize, relayVars, producerVars, held>>

\* Faulty variant: the handler yields after getAll and a clear is handled before
\* its other reads: the total and the timestamps describe the store before the
\* clear, the per-level counters the store after it.
GetConsoleStats_yield ==
    /\ call' = Call("get-console-stats", Undefined, Undefined)
    /\ result' = Result("stats", <<>>, 0,
                        [getConsoleStats(clear(logs)) EXCEPT
                            !.total = getConsoleStats(logs).total,
                            !.oldestTimestamp = getConsoleStats(logs).oldestTimestamp,
                            !.newestTimestamp = getConsoleStats(logs).newestTimestamp])
    /\ logs' = clear(logs)
    /\ added' = <<>>
    /\ UNCHANGED <<maxLogs, maxSize, relayVars, producerVars, held>>

GetConsoleStats ==
    /\ call' = Call("get-console-stats", Undefined, Undefined)
    /\ result' = Result("stats", <<>>, 0, getConsoleStats(logs))
    /\ UNCHANGED <<maxLogs, maxSize, logs, added, relayVars, producerVars, held>>

\* ---------------------------------------------------------------- reads

GetByLevel(level) ==
    /\ call' = Call("getByLevel", Undefined, Str(level))
    /\ result' = Returned(getByLevel(logs, level))
    /\ UNCHANGED <<maxLogs, maxSize, logs, added, relayVars, producerVars, held>>

GetErrors ==
    /\ call' = Call("getErrors", Undefined, Undefined)
    /\ result' = Returned(getErrors(logs))
    /\ UNCHANGED <<maxLogs, maxSize, logs, added, relayVars, producerVars, held>>

\* Faulty variant of GetRecent: the events are taken out with splice(-count).
GetRecent_splice(count) ==
    /\ call' = Call("getRecent", Num(count), Undefined)
    /\ result' = Returned(getRecent(logs, count))
    /\ logs' = SubSeq(logs, 1, Len(logs) - Len(getRecent(logs, count)))
    /\ UNCHANGED <<maxLogs, maxSize, added, relayVars, producerVars, held>>

GetRecent(count) ==
    /\ call' = Call("getRecent", Num(count), Undefined)
    /\ result' = Returned(getRecent(logs, count))
    /\ UNCHANGED <<maxLogs, maxSize, logs, added, relayVars, producerVars, held>>

GetRecentErrors(count) ==
    /\ call' = Call("getRecentErrors", Num(count), Undefined)
    /\ result' = Returned(getRecentErrors(logs, count))
    /\ UNCHANGED <<maxLogs, maxSize, logs, added, relayVars, producerVars, held>>

GetSince(timestamp) ==
    /\ call' = Call("getSince", Num(timestamp), Undefined)
    /\ result' = Returned(getSince(logs, timestamp))
    /\ UNCHANGED <<maxLogs, maxSize, logs, added, relayVars, producerVars, held>>

\* ---------------------------------------------------------------- tool arguments
\* The tools as declared with registerTool (mcp-server.ts lines 29-177).

\* z.number(): the argument must be present and a number.
zNumber(v) == v.t = "number"

\* z.enum(['log', 'info', 'debug', 'warn', 'error', 'assert', 'all']).
zLevel(v) == v.t = "string" /\ v.s \in {"log", "info", "debug", "warn", "error", "assert", "all"}

DefaultLogsCount == 50

\* x ?? d on a number argument (a non-number negates to NaN, which slice reads as 0).
OrNumber(v, d) == IF v.t = "undefined" THEN d ELSE v.n

\* x ?? d on a string argument.
OrString(v, d) == IF v.t = "undefined" THEN d ELSE v.s

\* Faulty variant of the schema: every argument passes.
validGetConsoleLogs_any(count, level) == TRUE

\* inputSchema of get-console-logs: { count: z.number(), level: z.enum([...]) }.
validGetConsoleLogs(count, level) == zNumber(count) /\ zLevel(level)

\* The handler of get-console-logs.
getConsoleLogs(ls, count, level) ==
    LET finalCount == OrNumber(count, DefaultLogsCount)
        finalLevel == OrString(level, "all")
    IN IF finalLevel = "all"
          THEN getRecent(ls, finalCount)
          ELSE slice(getByLevel(ls, finalLevel), 0 - finalCount)

Rejected == Result("rejected", <<>>, 0, NoStats)

\* tools/call of get-console-logs: the arguments are parsed against the
\* inputSchema, and the handler runs only when they pass.
GetConsoleLogs(count, level) ==
    /\ call' = Call("get-console-logs", count, level)
    /\ result' = IF validGetConsoleLogs(count, level)
                    THEN Returned(getConsoleLogs(logs, count, level))
                    ELSE Rejected
    /\ UNCHANGED <<maxLogs, maxSize, logs, added, relayVars, producerVars, held>>

\* ---------------------------------------------------------------- specifications

Next ==
    \/ \E log \in StoreEvents : Add(log, MaxAdds)
    \/ GetAll
    \/ Size
    \/ ClearConsoleLogs
    \/ GetConsoleStats

Spec == Init /\ [][Next]_vars

\* The scenario store: timestamps [100, 200, 50, 300] at levels [log, error, warn, error].
Scenario ==
    <<StoredLog("log", "A", 100, 0, 0), StoredLog("error", "B", 200, 1, 0),
      StoredLog("warn", "C", 50, 2, 1), StoredLog("error", "D", 300, 3, 0)>>

\* The events the store is fed with under SpecQuery.
QueryEvents == {StoredLog(m, "A", t, 0, 0) : m \in Levels, t \in {100, 200}}

RecentArgs == {-1, 0, 1, 2, 5}
SinceArgs == {100, 150, 200, 250}
CountArgs == {Undefined, Num(0), Num(2), Str("abc")}
LevelArgs == {Undefined, Str("all"), Str("error"), Str("assert"), Str("critical")}

\* A store constructed without a configured capacity.
InitQuery == Init /\ maxLogs = Undefined

\* The scenario's events, added one after the other to an empty store.
AddScenario ==
    /\ Len(added) < Len(Scenario)
    /\ added = SubSeq(Scenario, 1, Len(added))
    /\ Add(Scenario[Len(added) + 1], Len(Scenario))

NextQuery ==
    \/ \E log \in QueryEvents : Add(log, MaxLen)
    \/ AddScenario
    \/ ClearConsoleLogs
    \/ GetAll
    \/ Size
    \/ \E level \in Levels : GetByLevel(level)
    \/ GetErrors
    \/ \E count \in RecentArgs : GetRecent(count)
    \/ \E count \in RecentArgs : GetRecentErrors(count)
    \/ \E timestamp \in SinceArgs : GetSince(timestamp)
    \/ GetConsoleStats
    \/ \E count \in CountArgs, level \in LevelArgs : GetConsoleLogs(count, level)

SpecQuery == InitQuery /\ [][NextQuery]_vars

\* ---------------------------------------------------------------- query tools

DefaultErrorsCount == 10

\* z.number().optional() and z.enum([...]).optional(): an omitted argument passes
\* (and .default(d) then supplies d, as the handler's own default does).
zOptionalNumber(v) == v.t = "undefined" \/ zNumber(v)
zOptionalLevel(v) == v.t = "undefined" \/ zLevel(v)

\* inputSchema of get-console-errors (registerTool): { count: z.number() }.
validGetConsoleErrors(count) == zNumber(count)

\* The handler of get-console-errors: getRecentErrors(count ?? 10).
getConsoleErrors(ls, count) == getRecentErrors(ls, OrNumber(count, DefaultErrorsCount))

\* tools/call of get-console-errors as registered with registerTool.
GetConsoleErrors(count) ==
    /\ call' = Call("get-console-errors", count, Undefined)
    /\ result' = IF validGetConsoleErrors(count)
                    THEN Returned(getConsoleErrors(logs, count))
                    ELSE Rejected
    /\ UNCHANGED <<maxLogs, maxSize, logs, added, relayVars, producerVars, held>>

\* tools/call of get-console-errors as registered with server.tool: count is
\* z.number().optional().default(10).
GetConsoleErrorsTool(count) ==
    /\ call' = Call("get-console-errors/server.tool", count, Undefined)
    /\ result' = IF zOptionalNumber(count)
                    THEN Returned(getConsoleErrors(logs, count))
                    ELSE Rejected
    /\ UNCHANGED <<maxLogs, maxSize, logs, added, relayVars, producerVars, held>>

\* tools/call of get-console-logs as registered with server.tool: count and
\* level are optional with defaults 50 and 'all'.
GetConsoleLogsTool(count, level) ==
    /\ call' = Call("get-console-logs/server.tool", count, level)
    /\ result' = IF zOptionalNumber(count) /\ zOptionalLevel(level)
                    THEN Returned(getConsoleLogs(logs, count, level))
                    ELSE Rejected
    /\ UNCHANGED <<maxLogs, maxSize, logs, added, relayVars, producerVars, held>>

\* inputSchema of get-console-logs-since (registerTool):
\* { timestamp: z.number(), level: z.enum([...]) }.
validGetConsoleLogsSince(timestamp, level) == zNumber(timestamp) /\ zLevel(level)

\* The handler of get-console-logs-since.
getConsoleLogsSince(ls, timestamp, level) ==
    LET finalLevel == OrString(level, "all")
        since == getSince(ls, timestamp.n)
    IN IF finalLevel # "all"
          THEN SelectSeq(since, LAMBDA log : log.method = finalLevel)
          ELSE since

\* tools/call of get-console-logs-since as registered with registerTool; the
\* output carries the logs and count: logs.length.
GetConsoleLogsSince(timestamp, level) ==
    /\ call' = Call("get-console-logs-since", timestamp, level)
    /\ result' = IF validGetConsoleLogsSince(timestamp, level)
                    THEN Returned(getConsoleLogsSince(logs, timestamp, level))
                    ELSE Rejected
    /\ UNCHANGED <<maxLogs, maxSize, logs, added, relayVars, producerVars, held>>

ToolCounts == {Undefined, Num(0), Num(1), Num(2)}
ToolLevels == {Undefined, Str("all"), Str("error")}
ToolTimestamps == {Num(100), Num(150)}

NextTools ==
    \/ \E log \in StoreEvents : Add(log, MaxLen)
    \/ AddScenario
    \/ \E count \in ToolCounts : GetConsoleErrors(count)
    \/ \E count \in ToolCounts : GetConsoleErrorsTool(count)
    \/ \E count \in ToolCounts, level \in ToolLevels : GetConsoleLogs(count, level)
    \/ \E count \in ToolCounts, level \in ToolLevels : GetConsoleLogsTool(count, level)
    \/ \E timestamp \in ToolTimestamps, level \in ToolLevels : GetConsoleLogsSince(timestamp, level)

SpecTools == InitQuery /\ [][NextTools]_vars

\* ---------------------------------------------------------------- reads and queries

ReadCounts == {Undefined, Num(1), Str("abc")}
ReadLevels == {Undefined, Str("error"), Str("critical")}
ReadTimestamps == {Num(100), Str("abc")}

\* Every read of the store and every read-only tool, between adds.
NextReads ==
    \/ \E log \in StoreEvents : Add(log, MaxLen)
    \/ GetAll
    \/ Size
    \/ \E level \in {"error", "log"} : GetByLevel(level)
    \/ GetErrors
    \/ \E count \in {-1, 0, 1} : GetRecent(count)
    \/ \E count \in {-1, 0, 1} : GetRecentErrors(count)
    \/ \E timestamp \in {100, 200} : GetSince(timestamp)
    \/ \E count \in ReadCounts : GetConsoleErrors(count)
    \/ \E count \in ReadCounts : GetConsoleErrorsTool(count)
    \/ \E count \in ReadCounts, level \in ReadLevels : GetConsoleLogs(count, level)
    \/ \E count \in ReadCounts, level \in ReadLevels : GetConsoleLogsTool(count, level)
    \/ \E timestamp \in ReadTimestamps, level \in ReadLevels : GetConsoleLogsSince(timestamp, level)
    \/ GetConsoleStats

SpecReads == Init /\ [][NextReads]_vars

\* ---------------------------------------------------------------- snapshots

\* What the caller sees in the array it holds: the store's array when the
\* two are the same array, its own elements otherwise.
Observed(h, ls) == IF h.alias THEN ls ELSE h.elements

\* Faulty variant of KeepAll: getAll returns this.logs itself.
KeepAll_alias ==
    /\ call' = Call("getAll", Undefined, Undefined)
    /\ result' = Returned(getAll(logs))
    /\ held' = HeldAlias
    /\ UNCHANGED <<maxLogs, maxSize, logs, added, relayVars, producerVars>>

\* A caller calls getAll() and keeps the array returned: [...this.logs], a new
\* array with the elements of the store.
KeepAll ==
    /\ call' = Call("getAll", Undefined, Undefined)
    /\ result' = Returned(getAll(logs))
    /\ held' = HeldCopy(getAll(logs))
    /\ UNCHANGED <<maxLogs, maxSize, logs, added, relayVars, producerVars>>

\* Array.prototype.pop and reverse, by the elements they leave.
pop(a) == SubSeq(a, 1, Len(a) - 1)
reverse(a) == [i \in 1..Len(a) |-> a[Len(a) + 1 - i]]

\* The caller changes the array it holds in place, to onStore or onCopy; the
\* store's array changes with it only when it is that array.
ChangeHeld(op, onStore, onCopy) ==
    /\ held.taken
    /\ call' = Call(op, Undefined, Undefined)
    /\ result' = Void
    /\ IF held.alias
          THEN logs' = onStore /\ held' = held
          ELSE logs' = logs /\ held' = HeldCopy(onCopy)
    /\ UNCHANGED <<maxLogs, maxSize, added, relayVars, producerVars>>

PushHeld(log) ==
    /\ Len(Observed(held, logs)) < MaxAdds
    /\ ChangeHeld("held.push", Append(logs, log), Append(held.elements, log))

PopHeld ==
    /\ Observed(held, logs) # <<>>
    /\ ChangeHeld("held.pop", pop(logs), pop(held.elements))

ReverseHeld ==
    /\ Len(Observed(held, logs)) > 1
    /\ ChangeHeld("held.reverse", reverse(logs), reverse(held.elements))

SnapshotEvents == {Scenario[1], Scenario[2]}

NextSnapshot ==
    \/ \E log \in SnapshotEvents : Add(log, MaxAdds)
    \/ ClearConsoleLogs
    \/ KeepAll
    \/ \E log \in SnapshotEvents : PushHeld(log)
    \/ PopHeld
    \/ ReverseHeld

SpecSnapshot == Init /\ [][NextSnapshot]_vars

\* ---------------------------------------------------------------- transport endpoint

\* Most requests handled by the /__terminal middleware.
MaxReq == 2

\* The number NaN, next to Num(n).
NaN == [t |-> "NaN", n |-> 0, s |-> ""]

\* Number.parseInt(s) on the parameter strings of the model: the leading
\* decimal digits, NaN when there are none.
parseInt(s) ==
    CASE s = "0" -> Num(0)
      [] s = "1" -> Num(1)
      [] s = "2" -> Num(2)
      [] s = "100" -> Num(100)
      [] s = "200" -> Num(200)
      [] OTHER -> NaN

\* message.split('\n').join('\n  ') on the message strings of the model.
reindent(s) == IF s = "a\nb" THEN "a\n  b" ELSE s

\* JSON.parse(s) returns (does not throw), on the message strings of the model.
isJSON(s) == s \in {"[1]", "{}"}

methods == {"assert", "debug", "error", "info", "log", "table", "warn", "clear"}

\* Faulty variant of methods.includes: every path segment passes.
isMethod_any(method) == TRUE

\* methods.includes(method)
isMethod(method) == method \in methods

\* const logMethod = method === 'assert' ? 'error' : method
logMethod(method) == IF method = "assert" THEN "error" ELSE method

\* Faulty variant of shouldStoreInMCP: the store is not asked for.
shouldStoreInMCP_noStore(cfg, method) ==
    method # "clear" /\ method # "table" /\ logMethod(method) \in cfg.levels

\* Faulty variant of shouldStoreInMCP: table is not excluded.
shouldStoreInMCP_table(cfg, method) ==
    cfg.enabled /\ method # "clear" /\ (method = "table" \/ logMethod(method) \in cfg.levels)

\* logStore && method !== 'clear' && method !== 'table' && mcpLevels.includes(logMethod)
shouldStoreInMCP(cfg, method) ==
    cfg.enabled /\ method # "clear" /\ method # "table" /\ logMethod(method) \in cfg.levels

\* Faulty variant of the print condition: silent suppresses every request.
shouldDispatch_quiet(cfg, method) == ~cfg.silent

\* if (!mcpSilent || !shouldStoreInMCP) dispatchLog(...)
shouldDispatch(cfg, method) == ~cfg.silent \/ ~shouldStoreInMCP(cfg, method)

\* The entry passed to dispatchLog: { run, time, count }; run prints the
\* message of the request with this id.
Entry(id, method, time, count) == [id |-> id, method |-> method, time |-> time, count |-> count]

\* Faulty variant of the middleware: it remembers that it stored before and
\* stores the first request only.
handle_once(request, cfg, id) ==
    LET message == reindent(OrString(request.m, ""))
        time == parseInt(OrString(request.t, "0"))
        count == parseInt(OrString(request.c, "0"))
        groupLevel == parseInt(OrString(request.g, "0"))
        method == request.method
        threw == isMethod(method) /\ method = "table" /\ ~isJSON(message)
        proceeds == isMethod(method) /\ ~threw
        store == id = 1 /\ shouldStoreInMCP(cfg, method)
    IN Exchange(request, ~threw, threw,
                IF proceeds /\ store
                   THEN <<StoredLog(logMethod(method), message, time, count, groupLevel)>>
                   ELSE <<>>,
                IF proceeds /\ shouldDispatch(cfg, method)
                   THEN <<Entry(id, method, time, count)>>
                   ELSE <<>>)

\* The middleware on one request, with the store enabled or not: what it
\* passes to logStore.add and to dispatchLog, and whether res.end() is reached.
handle(request, cfg, id) ==
    LET message == reindent(OrString(request.m, ""))
        time == parseInt(OrString(request.t, "0"))
        count == parseInt(OrString(request.c, "0"))
        groupLevel == parseInt(OrString(request.g, "0"))
        method == request.method
        threw == isMethod(method) /\ method = "table" /\ ~isJSON(message)
        proceeds == isMethod(method) /\ ~threw
        store == shouldStoreInMCP(cfg, method)
    IN Exchange(request, ~threw, threw,
                IF proceeds /\ store
                   THEN <<StoredLog(logMethod(method), message, time, count, groupLevel)>>
                   ELSE <<>>,
                IF proceeds /\ shouldDispatch(cfg, method)
                   THEN <<Entry(id, method, time, count)>>
                   ELSE <<>>)

\* server.middlewares.use('/__terminal', ...) handling one request.
Handle(request) ==
    LET out == handle(request, mcp, Len(arrivals) + 1)
    IN /\ Len(arrivals) < MaxReq
       /\ logs' = IF out.stored # <<>> THEN add(logs, maxSize, out.stored[1]) ELSE logs
       /\ added' = added \o out.stored
       /\ arrivals' = Append(arrivals, out)
       /\ exchange' = out
       /\ pending' = pending \cup {out.dispatched[i] : i \in 1..Len(out.dispatched)}
       /\ call' = Call("/__terminal", Undefined, Undefined)
       /\ result' = Void
       /\ UNCHANGED <<maxLogs, maxSize, mcp, sink, producerVars, held>>

\* Ordering guard: the entry whose sequence number precedes e's was released.
PredecessorReleased(e) ==
    /\ e.count.t = "number"
    /\ \E i \in 1..Len(sink) : sink[i].count = Num(e.count.n - 1)

Release(e) ==
    /\ pending' = pending \ {e}
    /\ sink' = Append(sink, e)
    /\ UNCHANGED <<maxLogs, maxSize, logs, added, call, result, mcp, arrivals, exchange,
                   producerVars, held>>

\* Ordering guard: an entry is released once its predecessor was released.
ReleaseInOrder == \E e \in pending : PredecessorReleased(e) /\ Release(e)

\* Faulty variant of the guard: the wait is not bounded, no timer releases.
ReleaseOnTimeout_never == \E e \in pending : FALSE /\ Release(e)

\* Ordering guard: an entry is released when the bounded wait elapsed.
ReleaseOnTimeout == \E e \in pending : Release(e)

Base(method) == Request(method, Str("100"), Str("1"), Str("0"), Str("hi"))

\* The requests of the model: every method and an unknown one with all
\* parameters given, and requests with one parameter missing or malformed.
Requests ==
    {Base(m) : m \in methods \cup {"trace"}}
    \cup {Request("table", Str("100"), Str("1"), Str("0"), Str("[1]")),
          Request("clear", Str("100"), Str("2"), Str("0"), Undefined),
          Request("warn", Str("200"), Str("2"), Str("1"), Str("a\nb"))}
    \cup {Request("log", t, Str("1"), Str("0"), Str("hi")) : t \in {Undefined, Str("abc"), Str("")}}
    \cup {Request("log", Str("100"), c, Str("0"), Str("hi")) : c \in {Undefined, Str("abc")}}
    \cup {Request("log", Str("100"), Str("1"), g, Str("hi")) : g \in {Undefined, Str("abc")}}

RelayConfigs == {Mcp(TRUE, L, silent) : L \in {DefaultLevels, {"error"}}, silent \in BOOLEAN}

InitRelay ==
    /\ maxLogs = Undefined
    /\ maxSize = constructor(maxLogs)
    /\ logs = <<>>
    /\ added = <<>>
    /\ call = Call("new", maxLogs, Undefined)
    /\ result = Void
    /\ mcp \in RelayConfigs
    /\ InitIdle

NextRelay ==
    \/ \E request \in Requests : Handle(request)
    \/ ReleaseInOrder
    \/ ReleaseOnTimeout
    \/ GetByLevel("assert")
    \/ GetErrors
    \/ GetConsoleLogs(Num(2), Str("assert"))

SpecRelay == InitRelay /\ [][NextRelay]_vars

\* ---------------------------------------------------------------- configurations

\* Requests of every method, with all parameters given, and one request
\* without a sequence number.
ConfigRequests ==
    {Base(m) : m \in methods \cup {"trace"}}
    \cup {Request("table", Str("100"), Str("1"), Str("0"), Str("[1]")),
          Request("log", Str("100"), Undefined, Str("0"), Str("hi"))}

\* The mcp option: not enabled (or its imports failed, logStore stays
\* undefined) or enabled, with the levels and silent it carries.
Configs == {Mcp(enabled, L, silent) : enabled \in BOOLEAN,
                                      L \in {DefaultLevels, {"error"}, {"assert"}},
                                      silent \in BOOLEAN}

InitConfig ==
    /\ maxLogs = Undefined
    /\ maxSize = constructor(maxLogs)
    /\ logs = <<>>
    /\ added = <<>>
    /\ call = Call("new", maxLogs, Undefined)
    /\ result = Void
    /\ mcp \in Configs
    /\ InitIdle

NextConfig ==
    \/ \E request \in ConfigRequests : Handle(request)
    \/ ReleaseInOrder
    \/ ReleaseOnTimeout

SpecConfig == InitConfig /\ [][NextConfig]_vars

\* The timer of the guard's bounded wait fires: an entry that stays pending is
\* released by it.
SpecGuard == SpecConfig /\ WF_vars(ReleaseOnTimeout)

\* ---------------------------------------------------------------- producer

\* Most requests sent by one producer, and the deepest group nesting.
MaxCalls == 2
MaxDepth == 1

\* Sends a listener may issue in answer to failed sends before the model stops it.
MaxFeedback == 4

\* JavaScript values passed to the terminal methods, by kind; "circular" is an
\* object that refers to itself.
Values == {"string", "number", "undefined", "null", "object", "circular"}

\* Outcome of an expression producing the message: a string, undefined, or an
\* exception ("throw").
\* JSON.stringify(obj) (stringify and prettyPrint).
prettyPrint(obj) ==
    CASE obj = "circular" -> "throw"
      [] obj = "undefined" -> "undefined"
      [] OTHER -> "string"

\* stringifyObjs(objs): more than one argument is mapped through JSON.stringify
\* and joined; a single (or missing) argument is pretty-printed when typeof is
\* 'object' and otherwise converted with obj.toString().
stringifyObjs(objs) ==
    IF Len(objs) > 1
       THEN IF \E i \in 1..Len(objs) : prettyPrint(objs[i]) = "throw" THEN "throw" ELSE "string"
       ELSE LET obj == IF objs = <<>> THEN "undefined" ELSE objs[1]
            IN IF obj \in {"null", "object", "circular"} THEN prettyPrint(obj)
               ELSE IF obj = "undefined" THEN "throw"
               ELSE "string"

\* A template literal around an expression: throws when the expression does.
template(message) == IF message = "throw" THEN "throw" ELSE "string"

\* send(type, message): the request carries c = count++ and g = groupLevel, and
\* m only when the message is a (non-empty) string; the promise returned by
\* fetch is dropped.
\* Faulty variant: the envelope carries the counter but the counter is not advanced.
send_reuse(p, type, message) ==
    [p EXCEPT !.threw = FALSE,
              !.sent = <<[type |-> type, c |-> p.count, g |-> p.groupLevel,
                          m |-> message = "string"]>>]

send(p, type, message) ==
    [p EXCEPT !.count = @ + 1,
              !.threw = FALSE,
              !.sent = <<[type |-> type, c |-> p.count, g |-> p.groupLevel,
                          m |-> message = "string"]>>]

\* A terminal method whose body is send(type, <message>): the exception of the
\* message expression leaves the method before send is called.
Emit(type, message) ==
    /\ IF message = "throw"
          THEN /\ producer' = [producer EXCEPT !.threw = TRUE]
               /\ inflight' = inflight
          ELSE /\ producer' = send(producer, type, message)
               /\ inflight' = inflight + 1
    /\ UNCHANGED <<maxLogs, maxSize, logs, added, call, result, relayVars, rejections, held, window>>

Log(method, objs) ==
    /\ producer.count < MaxCalls
    /\ Emit(method, stringifyObjs(objs))

AssertCall(assertion, objs) ==
    /\ producer.count < MaxCalls
    /\ ~assertion
    /\ Emit("assert", template(stringifyObjs(objs)))

Table(obj) ==
    /\ producer.count < MaxCalls
    /\ Emit("table", prettyPrint(obj))

Dir(obj) ==
    /\ producer.count < MaxCalls
    /\ Emit("log", prettyPrint(obj))

TimeLog(objs) ==
    /\ producer.count < MaxCalls
    /\ Emit("log", template(stringifyObjs(objs)))

TimeEnd ==
    /\ producer.count < MaxCalls
    /\ Emit("log", "string")

Count ==
    /\ producer.count < MaxCalls
    /\ Emit("log", "string")

Clear ==
    /\ producer.count < MaxCalls
    /\ Emit("clear", "undefined")

Group ==
    /\ producer.groupLevel < MaxDepth
    /\ producer' = [producer EXCEPT !.groupLevel = @ + 1, !.threw = FALSE]
    /\ UNCHANGED <<maxLogs, maxSize, logs, added, call, result, relayVars, inflight, rejections, held, window>>

GroupCollapsed ==
    /\ producer.groupLevel < MaxDepth
    /\ producer' = [producer EXCEPT !.groupLevel = @ + 1, !.threw = FALSE]
    /\ UNCHANGED <<maxLogs, maxSize, logs, added, call, result, relayVars, inflight, rejections, held, window>>

\* Faulty variant: the depth is decremented without the test for zero.
GroupEnd_unguarded ==
    /\ producer' = [producer EXCEPT !.groupLevel = @ - 1, !.threw = FALSE]
    /\ UNCHANGED <<maxLogs, maxSize, logs, added, call, result, relayVars, inflight, rejections, held, window>>

GroupEnd ==
    /\ producer' = [producer EXCEPT !.groupLevel = IF @ # 0 THEN @ - 1 ELSE @, !.threw = FALSE]
    /\ UNCHANGED <<maxLogs, maxSize, logs, added, call, result, relayVars, inflight, rejections, held, window>>

\* The request of a fetch reached the server: the promise resolves.
FetchFulfilled ==
    /\ inflight > 0
    /\ inflight' = inflight - 1
    /\ UNCHANGED <<maxLogs, maxSize, logs, added, call, result, relayVars, producer, rejections, held, window>>

\* The request of a fetch failed (network error, endpoint unreachable): the
\* promise rejects, and no handler was attached to it.
FetchRejected ==
    /\ inflight > 0
    /\ inflight' = inflight - 1
    /\ rejections' = rejections + 1
    /\ UNCHANGED <<maxLogs, maxSize, logs, added, call, result, relayVars, producer, held, window>>

ArgLists == {<<>>, <<"string">>, <<"undefined">>, <<"object">>, <<"circular">>,
             <<"string", "number">>, <<"string", "undefined">>, <<"string", "circular">>}

NextProducer ==
    \/ \E method \in {"log", "info", "debug", "warn", "error"}, objs \in ArgLists : Log(method, objs)
    \/ \E assertion \in BOOLEAN, objs \in ArgLists : AssertCall(assertion, objs)
    \/ \E obj \in Values : Table(obj)
    \/ \E obj \in Values : Dir(obj)
    \/ \E objs \in ArgLists : TimeLog(objs)
    \/ TimeEnd
    \/ Count
    \/ Clear
    \/ Group
    \/ GroupCollapsed
    \/ GroupEnd
    \/ FetchFulfilled
    \/ FetchRejected

SpecProducer == InitQuery /\ [][NextProducer]_vars

\* ---------------------------------------------------------------- producer to endpoint

\* The strings a producer renders in the model: plain, with a space, with a
\* line break, with the characters + & # and empty.
Texts == {"hi", "a b", "a\nb", "a+b", "a&b", "a#b", ""}

Clock == {100, 200}

\* A number interpolated into the URL's template literal.
toString(n) == ToString(n)

\* encodeURI(s) on the strings of the model: the space and the line break are
\* percent-encoded; the reserved characters + & # are left as they are.
encodeURI(s) ==
    CASE s = "a b" -> "a%20b"
      [] s = "a\nb" -> "a%0Ab"
      [] OTHER -> s

\* The value url.searchParams.get('m') yields for a query ending in &m=<s>: the
\* fragment from # on is not part of the query, the parameter ends at &, + is
\* read as a space and percent escapes are decoded.
searchParamsGet(s) ==
    CASE s = "a%20b" -> "a b"
      [] s = "a%0Ab" -> "a\nb"
      [] s = "a+b" -> "a b"
      [] s = "a&b" -> "a"
      [] s = "a#b" -> "a"
      [] OTHER -> s

\* The request the endpoint sees for send(type, message) issued at time now by
\* producer p: the m parameter is appended only for a non-empty message.
fetch(p, type, message, now) ==
    Request(type, Str(toString(now)), Str(toString(p.count)), Str(toString(p.groupLevel)),
            IF message # "" THEN Str(searchParamsGet(encodeURI(message))) ELSE Undefined)

\* terminal[method](text) with one string argument at time now, its request
\* reaching the endpoint: stringifyObjs returns the string itself, send puts it
\* in the URL and the middleware handles the request.
Say(method, text, now) ==
    LET out == handle(fetch(producer, method, text, now), mcp, Len(arrivals) + 1)
    IN /\ Len(arrivals) < MaxReq
       /\ producer' = send(producer, method, IF text # "" THEN "string" ELSE "undefined")
       /\ logs' = IF out.stored # <<>> THEN add(logs, maxSize, out.stored[1]) ELSE logs
       /\ added' = added \o out.stored
       /\ arrivals' = Append(arrivals, out)
       /\ exchange' = out
       /\ pending' = pending \cup {out.dispatched[i] : i \in 1..Len(out.dispatched)}
       /\ call' = Call(method, Num(now), Str(text))
       /\ result' = Void
       /\ UNCHANGED <<maxLogs, maxSize, mcp, sink, inflight, rejections, held, window>>

NextRoundTrip ==
    \/ \E method \in {"log", "warn", "error"}, text \in Texts, now \in Clock : Say(method, text, now)
    \/ Group
    \/ GroupEnd
    \/ GetAll

SpecRoundTrip == InitQuery /\ [][NextRoundTrip]_vars

\* ---------------------------------------------------------------- statistics of a fed store

StatsRequests ==
    {Base(m) : m \in methods}
    \cup {Request("table", Str("100"), Str("1"), Str("0"), Str("[1]")),
          Request("info", Str("200"), Str("2"), Str("0"), Str("hi"))}

StatsConfigs == {Mcp(TRUE, DefaultLevels, FALSE), Mcp(TRUE, {"error", "debug"}, TRUE)}

\* configureServer with a small, a larger and the default capacity.
InitStats ==
    /\ maxLogs \in {Num(1), Num(MaxCap), Undefined}
    /\ maxSize = constructor(maxLogs)
    /\ logs = <<>>
    /\ added = <<>>
    /\ call = Call("new", maxLogs, Undefined)
    /\ result = Void
    /\ mcp \in StatsConfigs
    /\ InitIdle

NextStats ==
    \/ \E request \in StatsRequests : Handle(request)
    \/ ClearConsoleLogs
    \/ GetConsoleStats

SpecStats == InitStats /\ [][NextStats]_vars

\* ---------------------------------------------------------------- error handlers

\* The options objects passed to setupErrorHandlers: a key that is absent takes
\* its default.
HandlerOptions ==
    {[terminal |-> TRUE],
     [terminal |-> TRUE, captureUnhandledRejections |-> FALSE],
     [terminal |-> TRUE, captureUnhandledErrors |-> FALSE, captureConsoleError |-> TRUE]}

DefaultOptions == [terminal |-> TRUE]

\* setupErrorHandlers(options): the listeners it adds to window and whether it
\* patches console.error.  Rejections raised before the call are not delivered.
setupErrorHandlers(options) ==
    [installed |-> TRUE, options |-> options,
     error |-> IF "captureUnhandledErrors" \in DOMAIN options
                  THEN options.captureUnhandledErrors ELSE TRUE,
     unhandledrejection |-> IF "captureUnhandledRejections" \in DOMAIN options
                               THEN options.captureUnhandledRejections ELSE TRUE,
     consoleError |-> IF "captureConsoleError" \in DOMAIN options
                         THEN options.captureConsoleError ELSE FALSE,
     delivered |-> rejections, fedBack |-> 0]

SetupErrorHandlers(options) ==
    /\ ~window.installed
    /\ window' = setupErrorHandlers(options)
    /\ UNCHANGED <<maxLogs, maxSize, logs, added, call, result, relayVars, producer, inflight, rejections, held>>

\* k calls of terminal.error with a template string: each one is a send.
terminalError(p, k) ==
    IF k = 1 THEN send(p, "error", "string")
    ELSE IF k = 2 THEN send(send(p, "error", "string"), "error", "string")
    ELSE send(send(send(p, "error", "string"), "error", "string"), "error", "string")

\* The 'error' listener on an uncaught error of the application: the message,
\* the stack if the error has one, and the source position.
OnError(hasStack) ==
    LET k == IF hasStack THEN 3 ELSE 2
    IN /\ window.error
       /\ producer.count < MaxCalls
       /\ producer' = terminalError(producer, k)
       /\ inflight' = inflight + k
       /\ UNCHANGED <<maxLogs, maxSize, logs, added, call, result, relayVars, rejections, held, window>>

\* The 'unhandledrejection' listener on a rejected promise of the application:
\* the reason, and its stack if it has one.
OnUnhandledRejection(hasStack) ==
    LET k == IF hasStack THEN 2 ELSE 1
    IN /\ window.unhandledrejection
       /\ producer.count < MaxCalls
       /\ producer' = terminalError(producer, k)
       /\ inflight' = inflight + k
       /\ UNCHANGED <<maxLogs, maxSize, logs, added, call, result, relayVars, rejections, held, window>>

\* The 'unhandledrejection' listener on the rejected promise of a fetch that
\* send issued: the same listener, so it sends again.
OnSendRejection(hasStack) ==
    LET k == IF hasStack THEN 2 ELSE 1
    IN /\ window.unhandledrejection
       /\ window.delivered < rejections
       /\ window.fedBack < MaxFeedback
       /\ window' = [window EXCEPT !.delivered = @ + 1, !.fedBack = @ + k]
       /\ producer' = terminalError(producer, k)
       /\ inflight' = inflight + k
       /\ UNCHANGED <<maxLogs, maxSize, logs, added, call, result, relayVars, rejections, held>>

\* console.error(...args) of the application once setupErrorHandlers patched
\* it: the original console.error, then terminal.error(...args).
ConsoleError(objs) ==
    /\ window.consoleError
    /\ producer.count < MaxCalls
    /\ Emit("error", stringifyObjs(objs))

NextHandlers ==
    \/ \E options \in HandlerOptions : SetupErrorHandlers(options)
    \/ \E objs \in {<<"string">>, <<"undefined">>} : Log("log", objs)
    \/ \E hasStack \in BOOLEAN : OnError(hasStack)
    \/ \E hasStack \in BOOLEAN : OnUnhandledRejection(hasStack)
    \/ \E hasStack \in BOOLEAN : OnSendRejection(hasStack)
    \/ \E objs \in {<<"string">>, <<"undefined">>} : ConsoleError(objs)
    \/ FetchFulfilled
    \/ FetchRejected

SpecHandlers == InitQuery /\ [][NextHandlers]_vars

\* ---------------------------------------------------------------- claims

\* The last n elements of s (all of s when n >= Len(s)).
LastN(s, n) == SubSeq(s, Len(s) - Min(n, Len(s)) + 1, Len(s))

\* C1: after every add (no clear in between) size <= capacity and
\* size = min(number of adds so far, capacity); without a configured capacity
\* the capacity is 1000.
C1_CapacityInvariant ==
    /\ maxSize >= 0
    /\ size(logs) <= maxSize
    /\ size(logs) = Min(Len(added), maxSize)
    /\ (maxLogs.t = "undefined" => maxSize = 1000)
    /\ (maxLogs.t = "number" => maxSize = maxLogs.n)

C1_Witness ==
    /\ call.op = "add"
    /\ maxSize = 2
    /\ Len(added) = 4
    /\ size(logs) = 2

\* C2: FIFO eviction. Once more events than the capacity were added to an empty
\* store, getAll() returns exactly the last `capacity` added events, oldest
\* first; and every add to a full store removes exactly the oldest event.
C2_FifoEviction ==
    /\ [](call.op = "getAll" /\ Len(added) > maxSize
            => result.logs = LastN(added, maxSize))
    /\ [][call'.op = "add" /\ Len(logs) = maxSize
            => /\ Len(added') = Len(added) + 1
               /\ logs' = Tail(Append(logs, added'[Len(added')]))]_vars

C2_Witness ==
    /\ call.op = "getAll"
    /\ maxSize = 2
    /\ added = <<StoredLog("log", "A", 100, 0, 0), StoredLog("error", "A", 200, 0, 0),
                 StoredLog("assert", "A", 100, 0, 0)>>
    /\ result.logs = <<StoredLog("error", "A", 200, 0, 0), StoredLog("assert", "A", 100, 0, 0)>>

\* s is a contiguous suffix of t.
IsSuffix(s, t) == Len(s) <= Len(t) /\ s = SubSeq(t, Len(t) - Len(s) + 1, Len(t))

\* Every read operation of the store returns an empty sequence on ls.
AllReadsEmpty(ls) ==
    /\ getAll(ls) = <<>>
    /\ getErrors(ls) = <<>>
    /\ \A L \in Levels : getByLevel(ls, L) = <<>>
    /\ \A n \in -1..3 : getRecent(ls, n) = <<>> /\ getRecentErrors(ls, n) = <<>>
    /\ \A t \in {0, 100, 150, 200} : getSince(ls, t) = <<>>

\* C7: clear idempotence. Clearing an empty store reports 0 and leaves size 0;
\* a clear right after a clear reports 0 and leaves the store as it was; after
\* any clear the size is 0 and every read operation returns an empty sequence.
C7_ClearIdempotent ==
    /\ [](call.op = "clear-console-logs" => size(logs) = 0 /\ AllReadsEmpty(logs))
    /\ [][call'.op = "clear-console-logs" /\ size(logs) = 0
            => result'.n = 0 /\ size(logs') = 0]_vars
    /\ [][call.op = "clear-console-logs" /\ call'.op = "clear-console-logs"
            => result'.n = 0 /\ logs' = logs /\ added' = added /\ maxSize' = maxSize]_vars

C7_Witness ==
    /\ call.op = "clear-console-logs"
    /\ result.kind = "cleared"
    /\ result.n = 3
    /\ size(logs) = 0

\* C8: get-console-stats reports total = store.size; oldestTimestamp and
\* newestTimestamp are both null iff the store is empty, and otherwise are the
\* timestamps of the first and of the last stored event.
C8_StatsTotalAndBounds ==
    call.op = "get-console-stats" =>
        /\ result.kind = "stats"
        /\ result.stats.total = size(logs)
        /\ (result.stats.oldestTimestamp = Null <=> size(logs) = 0)
        /\ (result.stats.newestTimestamp = Null <=> size(logs) = 0)
        /\ (size(logs) > 0 =>
                /\ result.stats.oldestTimestamp = Some(logs[1].timestamp)
                /\ result.stats.newestTimestamp = Some(logs[Len(logs)].timestamp))

C8_Witness ==
    /\ call.op = "get-console-stats"
    /\ size(logs) = 2
    /\ Len(added) = 3
    /\ logs[1].timestamp = 200
    /\ logs[2].timestamp = 100
    /\ result.stats.oldestTimestamp = Some(200)
    /\ result.stats.newestTimestamp = Some(100)
    /\ result.stats.total = 2

\* C10: the store's content is always a contiguous suffix of the events added
\* since the last clear, field for field; a step changes the store only by
\* clearing it or by an add that appends the new event and drops at most the
\* oldest one.
C10_StoreIsSuffixOfHistory ==
    /\ [](IsSuffix(logs, added))
    /\ [][\/ logs' = logs
          \/ call'.op = "clear-console-logs" /\ logs' = <<>>
          \/ /\ call'.op = "add"
             /\ logs' # <<>>
             /\ logs'[Len(logs')] = added'[Len(added')]
             /\ SubSeq(logs', 1, Len(logs') - 1) \in
                    {logs} \cup (IF logs = <<>> THEN {} ELSE {Tail(logs)})]_vars

C10_Witness ==
    /\ call.op = "add"
    /\ maxSize = 2
    /\ Len(added) = 4
    /\ logs = SubSeq(added, 3, 4)
    /\ added[1] # added[3]
    /\ added[2] # added[4]

\* The k-th smallest element of a set of integers.
Kth(S, k) == CHOOSE i \in S : Cardinality({j \in S : j < i}) = k - 1

\* r holds exactly the elements of ls that satisfy Keep, each once, in the
\* order they have in ls.
IsFilterOf(r, ls, Keep(_)) ==
    LET idx == {i \in 1..Len(ls) : Keep(ls[i])}
    IN /\ Len(r) = Cardinality(idx)
       /\ \A k \in 1..Len(r) : r[k] = ls[Kth(idx, k)]

RECURSIVE IsSubsequence(_, _)
\* Every element of a occurs in b, in the same order.
IsSubsequence(a, b) ==
    IF a = <<>> THEN TRUE
    ELSE IF b = <<>> THEN FALSE
    ELSE IF Head(a) = Head(b) THEN IsSubsequence(Tail(a), Tail(b))
    ELSE IsSubsequence(a, Tail(b))

\* C3: getByLevel(L) returns exactly the stored events whose level is L, each
\* once, in their relative store order, for each of the six levels.
C3_GetByLevelExact ==
    call.op = "getByLevel" =>
        LET Keep(log) == log.method = call.level.s
        IN /\ call.level.s \in Levels
           /\ result.kind = "logs"
           /\ IsFilterOf(result.logs, logs, Keep)

C3_Witness ==
    /\ call.op = "getByLevel"
    /\ call.level = Str("error")
    /\ logs = Scenario
    /\ result.logs = <<Scenario[2], Scenario[4]>>

\* C4: getErrors() returns exactly the stored events of level error or assert
\* (the events of getByLevel(error) and getByLevel(assert) together), in store
\* order, and getRecentErrors(n) is the last n elements of that sequence.
C4_ErrorsAndRecentErrors ==
    LET Keep(log) == log.method \in {"error", "assert"}
    IN /\ call.op = "getErrors" =>
            /\ IsFilterOf(result.logs, logs, Keep)
            /\ IsSubsequence(getByLevel(logs, "error"), result.logs)
            /\ IsSubsequence(getByLevel(logs, "assert"), result.logs)
            /\ Len(result.logs) = Len(getByLevel(logs, "error")) + Len(getByLevel(logs, "assert"))
       /\ call.op = "getRecentErrors" /\ call.n.n >= 0 =>
            \E errors \in {getErrors(logs)} :
                /\ IsFilterOf(errors, logs, Keep)
                /\ result.logs = LastN(errors, call.n.n)

\* C5: getSince(t) returns exactly the stored events with timestamp >= t in
\* store order, whatever the order of the timestamps, and contains every
\* element of getSince(t') for t <= t'.
C5_GetSinceExactAndMonotone ==
    call.op = "getSince" =>
        LET t == call.n.n
            Keep(log) == log.timestamp >= t
        IN /\ result.kind = "logs"
           /\ IsFilterOf(result.logs, logs, Keep)
           /\ \A t2 \in SinceArgs : t <= t2 => IsSubsequence(getSince(logs, t2), result.logs)

C5_Witness ==
    /\ call.op = "getSince"
    /\ call.n = Num(150)
    /\ logs = Scenario
    /\ result.logs = <<Scenario[2], Scenario[4]>>
    /\ getSince(logs, 250) = <<Scenario[4]>>

\* C6: getRecent(n) returns the last min(n, size) events in store order when
\* n > 0 and an empty sequence when n <= 0.
C6_GetRecentBoundary ==
    call.op = "getRecent" =>
        result.logs = IF call.n.n > 0 THEN LastN(logs, Min(call.n.n, size(logs))) ELSE <<>>

\* C9: a get-console-logs call whose level is outside the enum or whose count
\* is not a number is rejected before its handler runs, the store is the same
\* before and after, and getAll() never shows anything but added events.
C9_InvalidQueryRejected ==
    /\ [][/\ call'.op = "get-console-logs"
          /\ \/ call'.n.t = "string"
             \/ call'.level.t = "string" /\ call'.level.s \notin (Levels \cup {"all"})
          => /\ result'.kind = "rejected"
             /\ result'.logs = <<>>
             /\ logs' = logs
             /\ size(logs') = size(logs)
             /\ maxSize' = maxSize]_vars
    /\ [](call.op = "getAll" => IsSuffix(result.logs, added) /\ result.logs = logs)

C9_Witness ==
    /\ call.op = "get-console-logs"
    /\ call.level = Str("critical")
    /\ call.n = Num(2)
    /\ result.kind = "rejected"
    /\ size(logs) = 2

\* The events the middleware passed to logStore.add, over a sequence of
\* handled requests, in handling order.
RECURSIVE StoredOf(_)
StoredOf(handled) ==
    IF handled = <<>> THEN <<>>
    ELSE StoredOf(SubSeq(handled, 1, Len(handled) - 1)) \o handled[Len(handled)].stored

\* C11: the store holds the stored events in the order in which the endpoint
\* handled their requests; the add for a request happens in the step that
\* handles it, a release by the ordering guard never changes the store, and an
\* event with a lower timestamp than an earlier one stays at its arrival
\* position.
C11_StoreOrderIsHandlingOrder ==
    /\ [](IsSuffix(logs, StoredOf(arrivals)) /\ (Len(StoredOf(arrivals)) <= maxSize => logs = StoredOf(arrivals)))
    /\ [][/\ arrivals' # arrivals =>
               /\ added' = added \o exchange'.stored
               /\ (exchange'.stored # <<>> => logs' # <<>> /\ logs'[Len(logs')] = exchange'.stored[1])
               /\ (exchange'.stored = <<>> => logs' = logs)
          /\ (sink' # sink \/ (pending' # pending /\ arrivals' = arrivals)) => logs' = logs]_vars

C11_Witness ==
    /\ Len(logs) = 2
    /\ logs[1].timestamp = Num(100)
    /\ logs[2].timestamp = Num(0)
    /\ arrivals[1].stored = <<logs[1]>>
    /\ arrivals[2].stored = <<logs[2]>>
    /\ Len(sink) = 1
    /\ sink[1].id = 2
    /\ \E e \in pending : e.id = 1

Range(s) == {s[i] : i \in 1..Len(s)}

\* C12: an event sent with method assert and stored through the endpoint is
\* returned by the level filter "assert" (getByLevel, get-console-logs) and
\* getErrors returns it with the level tag assert.
C12_AssertRetainsLevel ==
    \A i \in 1..Len(arrivals) :
        (arrivals[i].request.method = "assert" /\ arrivals[i].stored # <<>>) =>
            /\ (call.op = "getByLevel" /\ call.level = Str("assert")) =>
                   \E e \in Range(result.logs) :
                       e.method = "assert" /\ e.message = arrivals[i].stored[1].message
            /\ (call.op = "get-console-logs" /\ call.level = Str("assert")
                    /\ Len(StoredOf(arrivals)) <= call.n.n) =>
                   \E e \in Range(result.logs) :
                       e.method = "assert" /\ e.message = arrivals[i].stored[1].message
            /\ call.op = "getErrors" =>
                   \E e \in Range(result.logs) :
                       e.method = "assert" /\ e.message = arrivals[i].stored[1].message

\* The parameter is present and is a decimal number.
IsNumeric(v) == v.t = "string" /\ parseInt(v.s) # NaN

\* C13: when t, c or g of a request is missing or is not a valid number, the
\* value decoded for the store and for the ordering guard is 0, and the
\* request is processed and acknowledged like any other.
C13_MalformedNumberDecodesToZero ==
    \A i \in 1..Len(arrivals) :
        LET x == arrivals[i]
            r == x.request
        IN (isMethod(r.method) /\ r.method # "table") =>
              /\ ~IsNumeric(r.t) =>
                    /\ \A e \in Range(x.stored) : e.timestamp = Num(0)
                    /\ \A e \in Range(x.dispatched) : e.time = Num(0)
              /\ ~IsNumeric(r.c) =>
                    /\ \A e \in Range(x.stored) : e.count = Num(0)
                    /\ \A e \in Range(x.dispatched) : e.count = Num(0)
              /\ ~IsNumeric(r.g) => \A e \in Range(x.stored) : e.groupLevel = Num(0)
              /\ (~IsNumeric(r.t) \/ ~IsNumeric(r.c) \/ ~IsNumeric(r.g)) =>
                    /\ x.ended
                    /\ ~x.threw
                    /\ (shouldStoreInMCP(mcp, r.method) => x.stored # <<>>)
                    /\ ((~mcp.silent \/ ~shouldStoreInMCP(mcp, r.method)) => x.dispatched # <<>>)

\* C14: every request received by the endpoint is acknowledged (res.end() is
\* reached and the handler does not throw), whatever its method, parameters
\* and the outcome of storing and dispatching.
C14_EveryRequestAcknowledged ==
    /\ \A i \in 1..Len(arrivals) : arrivals[i].ended /\ ~arrivals[i].threw
    /\ (arrivals # <<>> => exchange.ended)

\* C15: handling a request with method clear or table passes nothing to
\* logStore.add and leaves the store as it was, for every configuration of
\* levels and silent.
C15_ClearAndTableNotStored ==
    [][(arrivals' # arrivals /\ exchange'.request.method \in {"clear", "table"}) =>
          /\ exchange'.stored = <<>>
          /\ logs' = logs
          /\ added' = added
          /\ maxSize' = maxSize]_vars

C15_Witness ==
    /\ exchange.request.method = "table"
    /\ exchange.ended
    /\ exchange.dispatched # <<>>
    /\ mcp = Mcp(TRUE, DefaultLevels, TRUE)
    /\ Len(arrivals) = 2
    /\ arrivals[1].request.method = "warn"
    /\ logs = arrivals[1].stored
    /\ Len(logs) = 1

\* C16: a request whose method segment is not a known method is acknowledged
\* and dropped: nothing is added to the store and nothing is handed to the
\* ordering guard or the live sink.
C16_UnknownMethodDropped ==
    [][(arrivals' # arrivals /\ exchange'.request.method \notin methods) =>
          /\ exchange'.ended
          /\ ~exchange'.threw
          /\ exchange'.stored = <<>>
          /\ exchange'.dispatched = <<>>
          /\ logs' = logs
          /\ added' = added
          /\ pending' = pending
          /\ sink' = sink]_vars

C16_Witness ==
    /\ exchange.request.method = "trace"
    /\ exchange.ended
    /\ Len(arrivals) = 2
    /\ arrivals[1].request.method = "error"
    /\ logs = arrivals[1].stored
    /\ Len(logs) = 1
    /\ pending = {arrivals[1].dispatched[1]}
    /\ sink = <<>>

\* C17: every logging call of the producer returns without throwing, and a
\* failed transport send leaves no unhandled rejection.
C17_ProducerNeverThrows == ~producer.threw /\ rejections = 0

\* The count and level a tool call asks for, with the documented defaults.
AskedCount(d) == IF call.n.t = "undefined" THEN d ELSE call.n.n
AskedLevel == IF call.level.t = "undefined" THEN "all" ELSE call.level.s

\* C18: get-console-errors returns the last N events of level error or assert
\* in store order, N being the count given and 10 when count is omitted; a call
\* without count is accepted and returns at most 10 events.
C18_GetConsoleErrors ==
    call.op \in {"get-console-errors", "get-console-errors/server.tool"} =>
        LET N == AskedCount(10)
            errors == SelectSeq(logs, LAMBDA log : log.method \in {"error", "assert"})
        IN /\ result.kind = "logs"
           /\ result.logs = LastN(errors, Min(N, Len(errors)))
           /\ Len(result.logs) <= N

\* C19: get-console-logs returns, in store order, the last min(N, matching)
\* events of the requested level, N being the count given (50 when omitted)
\* and the level defaulting to "all" (no filter); never more than N events and
\* never an event of another level.
C19_GetConsoleLogs ==
    call.op \in {"get-console-logs", "get-console-logs/server.tool"} =>
        LET N == AskedCount(50)
            matching == SelectSeq(logs, LAMBDA log : AskedLevel = "all" \/ log.method = AskedLevel)
        IN /\ result.kind = "logs"
           /\ result.logs = LastN(matching, Min(N, Len(matching)))
           /\ Len(result.logs) <= N
           /\ \A e \in Range(result.logs) : AskedLevel = "all" \/ e.method = AskedLevel

\* C20: get-console-logs-since(timestamp, level) returns exactly the stored
\* events with timestamp >= the given one and of the requested level (every
\* level when level is "all" or omitted), in store order, and reports as count
\* the number of events returned.
C20_GetConsoleLogsSince ==
    call.op = "get-console-logs-since" =>
        LET Keep(log) == /\ log.timestamp >= call.n.n
                         /\ (AskedLevel = "all" \/ log.method = AskedLevel)
        IN /\ result.kind = "logs"
           /\ IsFilterOf(result.logs, logs, Keep)
           /\ result.n = Len(result.logs)

\* C21: clear-console-logs empties the store and reports as cleared the number
\* of events the store held when it was emptied, whatever adds were handled
\* before and after; a get-console-stats that follows it directly reports
\* total 0.
C21_ClearReportsPreviousSize ==
    /\ [][call'.op = "clear-console-logs" =>
             /\ result'.kind = "cleared"
             /\ result'.n = size(logs)
             /\ logs' = <<>>
             /\ size(logs') = 0]_vars
    /\ [][(call.op = "clear-console-logs" /\ call'.op = "get-console-stats") =>
             result'.stats.total = 0]_vars

C21_Witness ==
    /\ call.op = "clear-console-logs"
    /\ result.kind = "cleared"
    /\ result.n = 2
    /\ maxSize = 2
    /\ logs = <<>>

\* The request was accepted: its method is known and the handler ran through.
Accepted(x) == isMethod(x.request.method) /\ ~x.threw

\* C22: with MCP enabled, an accepted event of method M among error, warn,
\* info, log, debug, assert is added to the store exactly when M is listed in
\* mcp.levels.
C22_StoredIffLevelListed ==
    \A i \in 1..Len(arrivals) :
        LET x == arrivals[i]
        IN (mcp.enabled /\ Accepted(x) /\ x.request.method \in Levels) =>
              (x.stored # <<>> <=> x.request.method \in mcp.levels)

\* The entries the middleware passed to dispatchLog, over the handled requests.
DispatchedOf(handled) == UNION {Range(handled[i].dispatched) : i \in 1..Len(handled)}

\* C23: with silent true an accepted event that is stored is never handed to
\* the live sink and one that is not stored is; with silent false every
\* accepted event is handed to the live sink, stored or not.
C23_SilentHidesStoredOnly ==
    /\ \A i \in 1..Len(arrivals) :
          LET x == arrivals[i]
          IN Accepted(x) =>
                /\ (mcp.silent /\ x.stored # <<>>) => x.dispatched = <<>>
                /\ (mcp.silent /\ x.stored = <<>>) => x.dispatched # <<>>
                /\ ~mcp.silent => x.dispatched # <<>>
    /\ pending \cup Range(sink) = DispatchedOf(arrivals)

C23_Witness ==
    /\ mcp = Mcp(TRUE, {"error"}, TRUE)
    /\ Len(arrivals) = 2
    /\ arrivals[1].request.method = "error"
    /\ arrivals[1].stored # <<>>
    /\ arrivals[1].dispatched = <<>>
    /\ arrivals[2].request.method = "warn"
    /\ arrivals[2].stored = <<>>
    /\ Range(sink) = Range(arrivals[2].dispatched)
    /\ Len(sink) = 1
    /\ Len(logs) = 1

\* C24: with silent true and the default levels nothing is handed to the live
\* sink, whatever the method of the request.
C24_SilentDefaultPrintsNothing ==
    (mcp.enabled /\ mcp.silent /\ mcp.levels = DefaultLevels) =>
        /\ \A i \in 1..Len(arrivals) : arrivals[i].dispatched = <<>>
        /\ pending = {}
        /\ sink = <<>>

\* The mcp option left out: no store, default levels, not silent.
NoMcp == Mcp(FALSE, DefaultLevels, FALSE)

\* C25: when MCP is not enabled (or its imports failed) no event is ever
\* stored and every accepted request is handed to the live sink exactly as
\* without the mcp option, whatever silent and levels are set to.
C25_McpIsOptIn ==
    ~mcp.enabled =>
        /\ logs = <<>>
        /\ added = <<>>
        /\ \A i \in 1..Len(arrivals) :
              LET x == arrivals[i]
              IN /\ x.stored = <<>>
                 /\ x = handle(x.request, NoMcp, i)
                 /\ Accepted(x) => Len(x.dispatched) = 1
        /\ pending \cup Range(sink) = DispatchedOf(arrivals)

C25_Witness ==
    /\ mcp = Mcp(FALSE, {"error"}, TRUE)
    /\ Len(arrivals) = 2
    /\ arrivals[1].request.method = "error"
    /\ arrivals[2].request.method = "table"
    /\ ~arrivals[2].threw
    /\ Len(sink) = 2
    /\ logs = <<>>

\* C26: every entry handed to the ordering guard is eventually released to
\* the live sink, also when its predecessor by sequence never arrives; an
\* entry leaves the guard only by being released, and the guard ends up empty.
C26_EveryEntryReleased ==
    /\ \A id \in 1..MaxReq :
          (\E e \in pending : e.id = id) ~> (\E k \in 1..Len(sink) : sink[k].id = id)
    /\ <>[](pending = {})
    /\ [][\A e \in pending : e \notin pending' => sink' = Append(sink, e)]_vars

C26_Witness ==
    /\ Len(arrivals) = 2
    /\ arrivals[1].request.c = Str("1")
    /\ arrivals[2].request.c = Str("1")
    /\ pending = {}
    /\ Len(sink) = 2
    /\ sink[1].id = 2
    /\ sink[2].id = 1
    /\ sink[1].count = Num(1)

\* C27: under every interleaving of handlers that add with handlers that read,
\* a read sees whole events only and at most maxSize of them: never the store
\* with the new event pushed and the oldest not yet shifted out.
C27_NoTornAppend ==
    /\ call.op = "getAll" =>
          /\ Len(result.logs) <= maxSize
          /\ \A e \in Range(result.logs) : e \in StoreEvents
          /\ result.logs = LastN(added, Min(Len(added), maxSize))
    /\ call.op = "size" => result.n = Min(Len(added), maxSize)
    /\ call.op = "get-console-stats" =>
          /\ result.stats.total <= maxSize
          /\ result.stats.total = Min(Len(added), maxSize)

C27_Witness ==
    /\ call.op = "getAll"
    /\ maxSize = 2
    /\ Len(added) = 3
    /\ result.logs = <<added[2], added[3]>>

\* Two handled requests had the same outcome: the same answer, the same event
\* stored, the same entry handed to the guard.
SameOutcome(x, y) ==
    /\ x.ended = y.ended
    /\ x.threw = y.threw
    /\ x.stored = y.stored
    /\ Len(x.dispatched) = Len(y.dispatched)
    /\ \A e \in Range(x.dispatched), f \in Range(y.dispatched) :
          e.method = f.method /\ e.time = f.time /\ e.count = f.count

ReadOps ==
    {"getAll", "getByLevel", "getErrors", "getRecent", "getRecentErrors", "getSince", "size",
     "get-console-errors", "get-console-errors/server.tool", "get-console-logs",
     "get-console-logs/server.tool", "get-console-logs-since", "get-console-stats"}

\* C29: every read of the store and every read-only query leaves the store's
\* contents, order and size as they were, for every argument value.
C29_ReadsDoNotMutate ==
    [][call'.op \in ReadOps =>
          /\ logs' = logs
          /\ size(logs') = size(logs)
          /\ maxSize' = maxSize
          /\ getAll(logs') = getAll(logs)]_vars

C29_Witness ==
    /\ call.op = "getRecent"
    /\ call.n = Num(1)
    /\ maxSize = 2
    /\ Len(added) = 2
    /\ Len(logs) = 2
    /\ result.logs = <<logs[2]>>

\* C30: getAll() returns a snapshot: the array returned holds the store's
\* events of the moment of the call, adds, evictions and clears made later do
\* not change it, and pushing to it, popping from it or reversing it does not
\* change the store.
C30_GetAllIsSnapshot ==
    /\ [][call'.op = "getAll" => Observed(held', logs') = logs /\ logs' = logs]_vars
    /\ [][(held.taken /\ call'.op \in {"add", "clear-console-logs"}) =>
             Observed(held', logs') = Observed(held, logs)]_vars
    /\ [][call'.op \in {"held.push", "held.pop", "held.reverse"} =>
             /\ logs' = logs
             /\ size(logs') = size(logs)
             /\ added' = added]_vars

C30_Witness ==
    /\ call.op = "held.reverse"
    /\ maxSize = 2
    /\ Len(added) = 3
    /\ added[1] # added[2]
    /\ Observed(held, logs) = <<added[2], added[1]>>
    /\ logs = <<added[2], added[3]>>

\* A step in which the producer issued a request: send is the only place that
\* calls fetch.
Sends == inflight' = inflight + 1

\* C31: within one producer the sequence counter of successive envelopes is
\* strictly increasing.  Every send carries the counter's value of the moment
\* and advances the counter, no call ever lowers the counter, and the envelope
\* last sent lies below the counter: so each send's value exceeds that of every
\* earlier send, across logging, grouping, timer and counter calls.
C31_CounterStrictlyIncreasing ==
    /\ [](producer.sent # <<>> => producer.sent[1].c < producer.count)
    /\ [][/\ producer'.count >= producer.count
          /\ Sends => /\ producer'.sent[1].c = producer.count
                      /\ producer'.count = producer.count + 1
                      /\ producer.sent # <<>> => producer'.sent[1].c > producer.sent[1].c]_vars

\* Two envelopes were sent around a group call: the second one carries 1.
C31_Witness ==
    /\ producer.count = 2
    /\ producer.groupLevel = 1
    /\ producer.sent # <<>>
    /\ producer.sent[1].c = 1
    /\ producer.sent[1].g = 1

\* C32: the group depth is a non-negative integer that group and
\* groupCollapsed raise by one and groupEnd lowers by one, except at depth 0,
\* where groupEnd leaves it at 0; every envelope carries the depth current at
\* the logging call, and a logging call leaves the depth alone.
C32_GroupDepth ==
    /\ [](producer.groupLevel \in Nat)
    /\ [][/\ Group => producer'.groupLevel = producer.groupLevel + 1
          /\ GroupCollapsed => producer'.groupLevel = producer.groupLevel + 1
          /\ GroupEnd => producer'.groupLevel = Max(producer.groupLevel - 1, 0)
          /\ Sends => /\ producer'.sent[1].g = producer.groupLevel
                      /\ producer'.groupLevel = producer.groupLevel
          /\ producer'.groupLevel # producer.groupLevel
                => Group \/ GroupCollapsed \/ GroupEnd]_vars

\* An envelope sent at depth 0 after a group was opened and closed again.
C32_Witness ==
    /\ producer.groupLevel = 0
    /\ producer.sent # <<>>
    /\ producer.sent[1].g = 0
    /\ producer.sent[1].c = 1
    /\ producer.count = 2

\* C33: encode/decode round trip.  For a message the producer rendered, the
\* event the endpoint stores (and the store shows) has that very message, and
\* its timestamp, sequence and group depth are the values the producer put in
\* the envelope.
C33_RoundTrip ==
    (call.op \in {"log", "warn", "error"} /\ exchange.stored # <<>>) =>
        LET e == exchange.stored[1]
        IN /\ e.message = call.level.s
           /\ e.timestamp = call.n
           /\ e.count = Num(producer.sent[1].c)
           /\ e.groupLevel = Num(producer.sent[1].g)
           /\ logs[Len(logs)] = e

\* The number of stored events whose level is one of L.
CountOf(ls, L) == Cardinality({i \in 1..Len(ls) : ls[i].method \in L})

\* C34: for a store fed only through the transport endpoint, the per-level
\* counters of get-console-stats add up to its total, after any sequence of
\* ingested events, evictions and clears.
C34_CountersAddUp ==
    call.op = "get-console-stats" =>
        result.stats.errors + result.stats.warnings + result.stats.info
          + result.stats.debug + result.stats.log = result.stats.total

\* An assert request was stored as an error and evicted its predecessor from a
\* store of capacity 1; the statistics count it once.
C34_Witness ==
    /\ call.op = "get-console-stats"
    /\ maxSize = 1
    /\ Len(added) = 2
    /\ Len(arrivals) = 2
    /\ arrivals[2].request.method = "assert"
    /\ result.stats.total = 1
    /\ result.stats.errors = 1

\* C36: get-console-stats computes all of its fields from one store state: the
\* total, each per-level counter and the two timestamps are those of the store
\* as it is when the handler returns, which is the store it started with.
C36_StatsOfOneState ==
    /\ [](call.op = "get-console-stats" =>
            /\ result.stats.total = Len(logs)
            /\ result.stats.errors = CountOf(logs, {"error", "assert"})
            /\ result.stats.warnings = CountOf(logs, {"warn"})
            /\ result.stats.info = CountOf(logs, {"info"})
            /\ result.stats.debug = CountOf(logs, {"debug"})
            /\ result.stats.log = CountOf(logs, {"log"})
            /\ result.stats.oldestTimestamp
                 = IF Len(logs) > 0 THEN Some(logs[1].timestamp) ELSE Null
            /\ result.stats.newestTimestamp
                 = IF Len(logs) > 0 THEN Some(logs[Len(logs)].timestamp) ELSE Null)
    /\ [][call'.op = "get-console-stats" => logs' = logs]_vars

\* Statistics of a store holding two events of different levels and times.
C36_Witness ==
    /\ call.op = "get-console-stats"
    /\ Len(logs) = 2
    /\ result.stats.total = 2
    /\ result.stats.warnings = 1
    /\ result.stats.info = 1
    /\ result.stats.oldestTimestamp = Some(Num(100))
    /\ result.stats.newestTimestamp = Some(Num(200))

\* C35: whenever the store is non-empty, get-console-stats reports an
\* oldestTimestamp not above its newestTimestamp, and every stored event's
\* timestamp lies between the two, whatever the order of arrival.
C35_OldestNotAfterNewest ==
    (call.op = "get-console-stats" /\ Len(logs) > 0) =>
        LET oldest == result.stats.oldestTimestamp[1]
            newest == result.stats.newestTimestamp[1]
        IN /\ oldest <= newest
           /\ \A i \in 1..Len(logs) : oldest <= logs[i].timestamp /\ logs[i].timestamp <= newest

\* C37: with setupErrorHandlers installed with its default options, a send that
\* fails does not, through the listeners, cause a further send.
C37_NoFeedback ==
    (window.installed /\ window.options = DefaultOptions) => window.fedBack = 0

====
